---- MODULE Spec2Model ----
(***************************************************************************)
(* Session / token lifecycle of the starburst REST API.                    *)
(*                                                                         *)
(* The durable state is the `users` collection and the `refresh_tokens`    *)
(* collection.  Every Express handler is an async function: between two    *)
(* awaited store calls any other request may run, so a handler is a        *)
(* sequence of steps, one per awaited store call, and the synchronous code *)
(* that follows an await belongs to the step of that await.                *)
(*                                                                         *)
(* Refresh tokens are uuidv4 strings; they are modelled as the naturals    *)
(* 1, 2, 3, ... handed out in order (a uuid never repeats).                *)
(***************************************************************************)
EXTENDS Integers, FiniteSets, Sequences, TLC

\* ---------------------------------------------------------------- bounds
\* number of accounts that are ever signed up
MaxUsers == 1
\* accounts signed up where the claim is about two subjects
MaxSubjects == 2
\* number of refresh tokens that are ever generated
MaxTok == 4
\* the clock runs from 0 to MaxTime
MaxTime == 1
\* tokenConfig.refreshTokenExpireTime, in clock ticks
RefreshTTL == 1
\* tokenConfig.accessTokenExpireTime, in ticks
AccessTTL == 1
\* the size of a file, in bytes, is 1 .. MaxFileSize
MaxFileSize == 2
\* entries one call of list_folder returns at most
MaxEntries == 2
\* calls of list_folder / list_folder/continue that exhaust a folder
MaxPages == 2

\* the slots of the requests that are in flight at the same time
Procs == {1, 2}

\* ------------------------------------------------------------- constants
\* token: null in a record (signed out), and a missing / empty / null
\* refreshToken in a request body: every one of them is falsy
NullTok == 0
\* a string that is the token of no record
UnknownTok == -1
\* a request body {"refreshToken": {"$ne": "<UnknownTok>"}}: express.json()
\* hands any JSON value to the handler, which passes it on as the filter
NeOp == -2

Users == 1..MaxSubjects
Toks == 1..MaxTok

VARIABLES
  users,     \* _ids of the documents of the users collection
  nextUid,   \* the _id the next sign-up gets
  tokens,    \* the documents of the refresh_tokens collection
  nextTok,   \* the next uuid
  now,       \* Date.now()
  req,       \* per request slot: the handler's position and its locals
  issued,    \* history: per user, the refresh tokens returned to the client
  latest,    \* history: per user, the refresh token returned last
  rotated,   \* history: the tokens presented by a refresh that succeeded
  revoked,   \* history: users signed out with no createToken since
  emails,    \* per user _id, the email field of its document
  codes      \* per user _id, the recoveryCode of its document (0: none)

vars == <<users, nextUid, tokens, nextTok, now, req, issued, latest, rotated,
          revoked, emails, codes>>

\* ------------------------------------------------- the Dropbox folders
\* an entry of list_folder: {'.tag': 'file', size} or {'.tag': 'folder'};
\* a folder is known by the pages its listing is returned in, the first
\* by list_folder and the others by list_folder/continue
File(n) == [tag |-> "file", size |-> n, pages |-> <<>>]
Folder(ps) == [tag |-> "folder", size |-> 0, pages |-> ps]

SeqsUpTo(S, n) == UNION {[1..k -> S] : k \in 0..n}

FileEntries == {File(n) : n \in 1..MaxFileSize}

\* the subfolders: one page, empty or holding one file of the largest size
SubFolders == {Folder(<<pg>>) : pg \in {<<>>, <<File(MaxFileSize)>>}}

\* the app's root folder: files and subfolders, on one page or more
RootFolders ==
  {Folder(ps) :
     ps \in SeqsUpTo(SeqsUpTo(FileEntries \cup SubFolders, MaxEntries),
                     MaxPages) \ {<<>>}}

\* ------------------------------------------------------ the request slot
Idle ==
  [op |-> "none", pc |-> "idle", user |-> 0, presented |-> NullTok,
   doc |-> 0, tok |-> NullTok, exp |-> 0,
   status |-> 0, code |-> "", refreshToken |-> NullTok,
   ov |-> FALSE, live0 |-> FALSE, reuse0 |-> FALSE,
   found |-> 0, look |-> "", revL |-> FALSE, so |-> FALSE,
   at |-> [uid |-> 0, iat |-> 0, exp |-> 0, sig |-> "none"], when |-> 0,
   threw |-> FALSE, old |-> {}, sup |-> FALSE, bodyUid |-> 0,
   late |-> "", pw |-> "", email |-> 0, rcode |-> 0, action |-> "",
   tree |-> Folder(<<>>), files |-> 0, spaceUsed |-> 0]

Free(p) == req[p].pc \in {"idle", "done"}
InFlight(p) == ~Free(p)

\* a new request takes the first slot that is free
Slot(p) == Free(p) /\ \A q \in Procs : q < p => InFlight(q)

\* the refresh requests in flight that present the value r presents
Peers(p, r) ==
  {q \in Procs \ {p} : /\ r.op = "refresh"
                        /\ req[q].op = "refresh"
                        /\ InFlight(q)
                        /\ req[q].presented = r.presented}

\* slot p takes the request r; ov records that two refresh requests
\* presenting the same value run at the same time
Begin(p, r) ==
  [q \in Procs |->
     IF q = p THEN [r EXCEPT !.ov = Peers(p, r) # {}]
     ELSE IF q \in Peers(p, r) THEN [req[q] EXCEPT !.ov = TRUE]
     ELSE req[q]]

\* ------------------------------------------------------------ responses
\* next(new ServerError(status, code, ...)) and the errorHandler's reply
Fail(r, st, cd) ==
  [r EXCEPT !.pc = "done", !.status = st, !.code = cd,
            !.doc = 0, !.tok = NullTok, !.exp = 0, !.so = FALSE,
            !.bodyUid = 0]

\* an error that is not a ServerError: errorHandler answers 500 'unknow'
Unknown(r) == Fail(r, 500, "unknow")

\* ---------------------------------------------------------------- store
\* the documents a filter on `token` selects
MatchToken(v) ==
  IF v = NeOp THEN {d \in tokens : d.token # UnknownTok}
  ELSE {d \in tokens : d.token = v}

\* a lookup by user that forgets its filter
MatchUserAny(u) == tokens

\* the documents a filter on `user` selects
MatchUser(u) == {d \in tokens : d.user = u}

verifyExpiration(d, t) ==
  IF d.token # NullTok THEN t < d.expiryDate ELSE TRUE

\* the uuids left: a request in flight that may still call createToken
\* keeps one for itself
PendingCT == Cardinality({q \in Procs : req[q].pc \in {"rfFind", "rfUser"}})
CanCreate == nextTok + PendingCT <= MaxTok

\* createToken up to its first await: expiredAt, _token, findOne issued
createTokenBegin(r, u) ==
  [r EXCEPT !.pc = "ctFind", !.user = u, !.tok = nextTok,
            !.exp = now + RefreshTTL]

Init ==
  /\ users = {}
  /\ nextUid = 1
  /\ tokens = {}
  /\ nextTok = 1
  /\ now = 0
  /\ req = [p \in Procs |-> Idle]
  /\ issued = [u \in Users |-> {}]
  /\ latest = [u \in Users |-> NullTok]
  /\ rotated = {}
  /\ revoked = {}
  /\ emails = [u \in Users |-> u]
  /\ codes = [u \in Users |-> 0]

\* ----------------------------------------------------------- createUser
CreateUser(p) ==
  /\ Slot(p)
  /\ nextUid \in Users
  /\ CanCreate
  /\ \E pwOk \in BOOLEAN :
       IF ~pwOk
       THEN /\ req' = Begin(p, Fail([Idle EXCEPT !.op = "createUser"],
                                    400, "invalid-params"))
            /\ UNCHANGED <<users, nextUid, nextTok, revoked>>
       ELSE /\ users' = users \cup {nextUid}
            /\ nextUid' = nextUid + 1
            /\ req' = Begin(p, createTokenBegin(
                                 [Idle EXCEPT !.op = "createUser"], nextUid))
            /\ nextTok' = nextTok + 1
            /\ revoked' = revoked \ {nextUid}
  /\ UNCHANGED <<tokens, now, emails, issued, latest, rotated, codes>>

\* ---------------------------------------------------------- createToken
\* res.json({accessToken, refreshToken, ...}) of createUser, signIn and
\* refreshAccessToken; signIn goes on to save the user after the response
Ok(r) ==
  [r EXCEPT !.pc = IF r.op = "signIn" THEN "siSave" ELSE "done",
            !.status = 200, !.refreshToken = r.tok,
            !.doc = 0, !.tok = NullTok, !.exp = 0, !.so = FALSE,
            !.bodyUid = 0]

\* what each caller of createToken does with a rejected save()
Thrown(r) ==
  CASE r.op = "signIn" -> Fail(r, 400, "user-not-found")
    [] r.op = "createUser" -> Fail(r, 500, "unknown-error")
    [] OTHER -> Unknown(r)

\* the histories kept when a token pair is returned
Returned(p) ==
  /\ issued' = [issued EXCEPT ![req[p].user] = @ \cup {req[p].tok}]
  /\ latest' = [latest EXCEPT ![req[p].user] = req[p].tok]
  /\ rotated' = IF req[p].op = "refresh" /\ req[p].presented \in Toks
                THEN rotated \cup {req[p].presented} ELSE rotated

\* await this.findOne({ user: user._id })
CtFind(p) ==
  /\ req[p].pc = "ctFind"
  /\ IF MatchUser(req[p].user) = {}
     THEN req' = [req EXCEPT ![p].pc = "ctInsert"]
     ELSE \E d \in MatchUser(req[p].user) :
            req' = [req EXCEPT ![p].pc = "ctSave", ![p].doc = d.id]
  /\ UNCHANGED <<users, nextUid, tokens, nextTok, now, emails, issued, latest, rotated, revoked, codes>>

\* tokenInstance.token = _token; await tokenInstance.save(); return _token
\* (save() of a document that was deleted meanwhile rejects)
CtSave(p) ==
  /\ req[p].pc = "ctSave"
  /\ IF \E d \in tokens : d.id = req[p].doc
     THEN /\ tokens' = {IF d.id = req[p].doc
                        THEN [d EXCEPT !.token = req[p].tok] ELSE d :
                        d \in tokens}
          /\ req' = [req EXCEPT ![p] = Ok(req[p])]
          /\ Returned(p)
     ELSE /\ req' = [req EXCEPT ![p] = Thrown(req[p])]
          /\ UNCHANGED <<tokens, issued, latest, rotated>>
  /\ UNCHANGED <<users, nextUid, nextTok, now, emails, revoked, codes>>

\* new this({token, user, expiryDate}); await docInstance.save()
CtInsert(p) ==
  /\ req[p].pc = "ctInsert"
  /\ tokens' = tokens \cup {[id |-> req[p].tok, user |-> req[p].user,
                             token |-> req[p].tok,
                             expiryDate |-> req[p].exp]}
  /\ req' = [req EXCEPT ![p] = Ok(req[p])]
  /\ Returned(p)
  /\ UNCHANGED <<users, nextUid, nextTok, now, emails, revoked, codes>>

\* --------------------------------------------------------------- signIn
\* UserModel.findOne({email}).orFail(), isValidPassword, createToken
\* no sign-up or sign-in of u is inside createToken
NoSignInInFlight(u) ==
  \A q \in Procs :
    (req[q].pc \in {"ctFind", "ctSave", "ctInsert"}
       /\ req[q].op \in {"createUser", "signIn"}) => req[q].user # u

\* history: the refreshes of u that are past their token lookup when a
\* sign-out of u is answered
SignedOutUnder(rq, u) ==
  [q \in Procs |->
     IF /\ rq[q].op = "refresh"
        /\ rq[q].pc \in {"rfUser", "ctFind", "ctSave", "ctInsert"}
        /\ rq[q].user = u
        /\ NoSignInInFlight(u)
     THEN [rq[q] EXCEPT !.so = TRUE] ELSE rq[q]]

\* history: a new sign-in of u ends the sign-out those refreshes ran under
SignedInOver(rq, u) ==
  [q \in Procs |->
     IF rq[q].user = u THEN [rq[q] EXCEPT !.so = FALSE] ELSE rq[q]]

SignIn(p) ==
  /\ Slot(p)
  /\ CanCreate
  /\ \E u \in Users, match \in BOOLEAN :
       LET r == [Idle EXCEPT !.op = "signIn", !.user = u] IN
       IF u \notin users
       THEN /\ req' = Begin(p, Fail(r, 400, "user-not-found"))
            /\ UNCHANGED <<nextTok, revoked>>
       ELSE IF ~match
       THEN /\ req' = Begin(p, Fail(r, 401, "invalid-credentials"))
            /\ UNCHANGED <<nextTok, revoked>>
       ELSE /\ req' = SignedInOver(
                         Begin(p, createTokenBegin(
                                    [r EXCEPT !.old =
                                       IF \E d \in MatchUser(u) :
                                            d.token # NullTok
                                       THEN issued[u] ELSE {}], u)), u)
            /\ nextTok' = nextTok + 1
            /\ revoked' = revoked \ {u}
  /\ UNCHANGED <<users, nextUid, tokens, now, emails, issued, latest, rotated, codes>>

\* after the response: user.recoveryCode = null; await user.save()
\* (the recovery code is no part of the token lifecycle: the step only
\* ends the handler)
SiSave(p) ==
  /\ req[p].pc = "siSave"
  /\ req' = [req EXCEPT ![p].pc = "done"]
  /\ UNCHANGED <<users, nextUid, tokens, nextTok, now, emails, issued, latest, rotated, revoked, codes>>

\* --------------------------------------------------- refreshAccessToken
\* what a client can put in the body: nothing, a token it was given, a
\* string of its own, or a JSON object
Presentable == {NullTok, UnknownTok, NeOp} \cup UNION {issued[u] : u \in Users}

\* const { refreshToken } = req.body; if (!refreshToken) ...; findOne issued
StartRefresh(p) ==
  /\ Slot(p)
  /\ CanCreate
  /\ \E v \in Presentable :
       LET r == [Idle EXCEPT
                   !.op = "refresh", !.presented = v, !.pc = "rfFind",
                   !.live0 = \E d \in tokens :
                               d.token = v /\ v \in Toks /\ now < d.expiryDate,
                   !.reuse0 = v \in rotated,
                   !.sup = \E q \in Procs :
                             /\ req[q].op = "signIn" /\ req[q].status = 200
                             /\ v \in req[q].old] IN
       IF v = NullTok
       THEN req' = Begin(p, Fail(r, 400, "invalid-params"))
       ELSE req' = Begin(p, r)
  /\ UNCHANGED <<users, nextUid, tokens, nextTok, now, emails, issued, latest, rotated, revoked, codes>>

\* await RefreshToken.findOne({ token: refreshToken }); verifyExpiration
RfFind(p) ==
  /\ req[p].pc = "rfFind"
  /\ IF MatchToken(req[p].presented) = {}
     THEN req' = [req EXCEPT ![p] =
                    [Fail(req[p], 401, "invalid-refresh-token") EXCEPT
                       !.look = "none",
                       !.revL = \E u \in revoked : req[p].presented \in issued[u]]]
     ELSE \E d \in MatchToken(req[p].presented) :
            LET r == [req[p] EXCEPT
                        !.user = d.user, !.found = d.id,
                        !.look = IF d.token # req[p].presented THEN "other"
                                 ELSE IF now < d.expiryDate THEN "live"
                                 ELSE "expired",
                        !.revL = \E u \in revoked :
                                   req[p].presented \in issued[u]]
                expired == verifyExpiration(d, now) IN
            IF ~expired
            THEN req' = [req EXCEPT ![p] = [r EXCEPT !.pc = "rfUser"]]
            ELSE req' = [req EXCEPT ![p] = Fail(r, 403, "expired-token")]
  /\ UNCHANGED <<users, nextUid, tokens, nextTok, now, emails, issued, latest, rotated, revoked, codes>>

\* await UserModel.findOne({ _id: token.user }); createToken(user)
RfUser(p) ==
  /\ req[p].pc = "rfUser"
  /\ IF req[p].user \notin users
     THEN /\ req' = [req EXCEPT ![p] =
                       Fail(req[p], 401, "invalid-refresh-token")]
          /\ UNCHANGED <<nextTok, revoked>>
     ELSE /\ req' = [req EXCEPT ![p] = createTokenBegin(req[p], req[p].user)]
          /\ nextTok' = nextTok + 1
          /\ revoked' = revoked \ {req[p].user}
  /\ UNCHANGED <<users, nextUid, tokens, now, emails, issued, latest, rotated, codes>>

\* -------------------------------------------------------------- signOut
\* the uid isAuth took from an access token: any account that was sent
\* a token pair (the access token comes with it)
Authenticated == {u \in Users : issued[u] # {}}

\* no createToken of u has begun and not yet returned
NoCreateInFlight(u) ==
  \A q \in Procs :
    req[q].pc \in {"ctFind", "ctSave", "ctInsert"} => req[q].user # u

\* await RefreshToken.findOne({ user: uid }); isAuth has set uid, so the
\* 'uid param is missing' branch is not taken
SignOut(p) ==
  /\ Slot(p)
  /\ \E u \in Authenticated :
       LET r == [Idle EXCEPT !.op = "signOut", !.user = u,
                             !.revL = u \in revoked] IN
       IF MatchUser(u) = {}
       THEN /\ req' = SignedOutUnder(
                         Begin(p, [r EXCEPT !.pc = "done", !.status = 200]), u)
            /\ revoked' = IF NoCreateInFlight(u)
                          THEN revoked \cup {u} ELSE revoked
       ELSE /\ \E d \in MatchUser(u) :
                 req' = Begin(p, [r EXCEPT !.pc = "soSave", !.doc = d.id])
            /\ UNCHANGED revoked
  /\ UNCHANGED <<users, nextUid, tokens, nextTok, now, emails, issued, latest, rotated, codes>>

\* a sign-out that removes the record instead of nulling its token
SoSaveRemove(p) ==
  /\ req[p].pc = "soSave"
  /\ tokens' = {d \in tokens : d.id # req[p].doc}
  /\ req' = [req EXCEPT ![p].pc = "done", ![p].status = 200, ![p].doc = 0]
  /\ revoked' = revoked \cup {req[p].user}
  /\ UNCHANGED <<users, nextUid, nextTok, now, emails, issued, latest, rotated, codes>>

\* refreshToken.token = null; await refreshToken.save(); res.status(200)
SoSave(p) ==
  /\ req[p].pc = "soSave"
  /\ IF \E d \in tokens : d.id = req[p].doc
     THEN /\ tokens' = {IF d.id = req[p].doc
                        THEN [d EXCEPT !.token = NullTok] ELSE d :
                        d \in tokens}
          /\ req' = SignedOutUnder(
                       [req EXCEPT ![p].pc = "done", ![p].status = 200,
                                   ![p].doc = 0], req[p].user)
          /\ revoked' = IF NoCreateInFlight(req[p].user)
                        THEN revoked \cup {req[p].user} ELSE revoked
     ELSE /\ req' = [req EXCEPT ![p] = Unknown(req[p])]
          /\ UNCHANGED <<tokens, revoked>>
  /\ UNCHANGED <<users, nextUid, nextTok, now, emails, issued, latest, rotated, codes>>

\* ----------------------------------------------------------- deleteUser
\* await UserModel.findOne({ _id: uid }); isValidPassword
DeleteUser(p) ==
  /\ Slot(p)
  /\ \E u \in Authenticated, match \in BOOLEAN :
       LET r == [Idle EXCEPT !.op = "deleteUser", !.user = u] IN
       IF u \notin users
       THEN req' = Begin(p, Fail(r, 400, "user-not-found"))
       ELSE IF ~match
       THEN req' = Begin(p, Fail(r, 401, "invalid-credentials"))
       ELSE req' = Begin(p, [r EXCEPT !.pc = "duTok"])
  /\ UNCHANGED <<users, nextUid, tokens, nextTok, now, emails, issued, latest, rotated, revoked, codes>>

\* await RefreshToken.findOneAndDelete({ user: user.id })
DuTok(p) ==
  /\ req[p].pc = "duTok"
  /\ IF MatchUser(req[p].user) = {}
     THEN UNCHANGED tokens
     ELSE \E d \in MatchUser(req[p].user) : tokens' = tokens \ {d}
  /\ req' = [req EXCEPT ![p].pc = "duUser"]
  /\ UNCHANGED <<users, nextUid, nextTok, now, emails, issued, latest, rotated, revoked, codes>>

\* await user.delete(); res.status(200).json({ ok: true })
DuUser(p) ==
  /\ req[p].pc = "duUser"
  /\ users' = users \ {req[p].user}
  /\ req' = [req EXCEPT ![p].pc = "done", ![p].status = 200]
  /\ UNCHANGED <<nextUid, tokens, nextTok, now, emails, issued, latest, rotated, revoked, codes>>

\* ---------------------------------------------------------------- clock
Tick ==
  /\ now < MaxTime
  /\ now' = now + 1
  /\ UNCHANGED <<users, nextUid, tokens, nextTok, req, issued, latest, rotated, revoked, emails, codes>>

Next ==
  \/ nextUid <= MaxUsers /\ \E p \in Procs : CreateUser(p)
  \/ \E p \in Procs : SignIn(p)
  \/ \E p \in Procs : SiSave(p)
  \/ \E p \in Procs : CtFind(p)
  \/ \E p \in Procs : CtSave(p)
  \/ \E p \in Procs : CtInsert(p)
  \/ \E p \in Procs : StartRefresh(p)
  \/ \E p \in Procs : RfFind(p)
  \/ \E p \in Procs : RfUser(p)
  \/ \E p \in Procs : SignOut(p)
  \/ \E p \in Procs : SoSave(p)
  \/ \E p \in Procs : DeleteUser(p)
  \/ \E p \in Procs : DuTok(p)
  \/ \E p \in Procs : DuUser(p)
  \/ Tick

Spec == Init /\ [][Next]_vars

\* one client at a time: every request is answered before the next starts
NextSeq ==
  \/ nextUid <= MaxUsers /\ CreateUser(1)
  \/ SignIn(1)
  \/ SiSave(1)
  \/ CtFind(1)
  \/ CtSave(1)
  \/ CtInsert(1)
  \/ StartRefresh(1)
  \/ RfFind(1)
  \/ RfUser(1)
  \/ SignOut(1)
  \/ SoSave(1)
  \/ DeleteUser(1)
  \/ DuTok(1)
  \/ DuUser(1)
  \/ Tick

SpecSeq == Init /\ [][NextSeq]_vars

\* ------------------------------------------------------ updateCredentials
\* the addresses a client can ask for: those the accounts signed up with
\* and one more
Addresses == 1..(MaxSubjects + 1)

\* what `!user.isValidPassword(password)` evaluates to: the method is
\* async, so the operand is a Promise, and `!` of an object is false
NotValidPassword(pw) == FALSE

\* isAuth and checkEmail have passed: uid is the token's, email is an
\* address. `!password`; await UserModel.findOne({ _id: uid }); the password
\* test; user.email = email
UpdateCredentials(p) ==
  /\ Slot(p)
  /\ \E u \in Authenticated, pw \in {"", "wrong", "right"}, e \in Addresses :
       LET r == [Idle EXCEPT !.op = "updateCredentials", !.user = u,
                             !.pw = pw, !.email = e] IN
       req' = Begin(p,
                IF pw = "" THEN Fail(r, 401, "invalid-params")
                ELSE IF u \notin users THEN Fail(r, 401, "bad-token")
                ELSE IF NotValidPassword(pw)
                THEN Fail(r, 401, "invalid-credentials")
                ELSE [r EXCEPT !.pc = "ucSave"])
  /\ UNCHANGED <<users, nextUid, tokens, nextTok, now, emails, issued, latest, rotated, revoked, codes>>

\* await user.save(); res.json({ ok: true, action: 'email-update' }). A
\* rejected save (the document is gone, or the address is another user's:
\* the email index is unique) is not caught: no answer is sent
UcSave(p) ==
  /\ req[p].pc = "ucSave"
  /\ IF /\ req[p].user \in users
        /\ \A v \in users \ {req[p].user} : emails[v] # req[p].email
     THEN /\ emails' = [emails EXCEPT ![req[p].user] = req[p].email]
          /\ req' = [req EXCEPT ![p].pc = "done", ![p].status = 200]
     ELSE /\ req' = [req EXCEPT ![p].pc = "done"]
          /\ UNCHANGED emails
  /\ UNCHANGED <<users, nextUid, tokens, nextTok, now, issued, latest, rotated, revoked, codes>>

\* the change of credentials next to the other requests, one at a time
NextCred ==
  \/ NextSeq
  \/ UpdateCredentials(1)
  \/ UcSave(1)

SpecCred == Init /\ [][NextCred]_vars

\* -------------------------------------------------------- recoverPassword
\* the recovery codes a client can send: none, or a uuid
RecoveryCodes == 0..MaxSubjects

\* the whole handler. `!email || !(code && password)` answers 400; then
\* without a code: findOne({ email }), generateRecoveryCode, sendEmail,
\* 'email-sent'; with one: findOne({ recoveryCode: code }), the password
\* length, user.password = password, user.recoveryCode = null, save,
\* 'password-updated'. The codes object has no INVALID_RECOVERY_CODE
\* member, so the rejection of an unknown code carries no code
RecoverPassword(p) ==
  /\ Slot(p)
  /\ \E e \in {0} \cup Addresses, c \in RecoveryCodes,
        pw \in {"", "short", "right"} :
       LET r == [Idle EXCEPT !.op = "recoverPassword", !.email = e,
                             !.rcode = c, !.pw = pw]
           byEmail == {u \in users : emails[u] = e}
           byCode == {u \in users : codes[u] = c}
           sent == [r EXCEPT !.pc = "done", !.status = 200,
                             !.action = "email-sent"]
           updated == [r EXCEPT !.pc = "done", !.status = 200,
                                !.action = "password-updated"] IN
       IF e = 0 \/ ~(c # 0 /\ pw # "")
       THEN /\ req' = Begin(p, Fail(r, 400, "invalid-params"))
            /\ UNCHANGED codes
       ELSE IF c = 0
       THEN IF byEmail = {}
            THEN /\ req' = Begin(p, Fail(r, 400, "invalid-params"))
                 /\ UNCHANGED codes
            ELSE \E u \in byEmail :
                   /\ codes' = [codes EXCEPT ![u] = u]
                   /\ req' = Begin(p, [sent EXCEPT !.user = u])
       ELSE IF byCode = {}
       THEN /\ req' = Begin(p, Fail(r, 400, ""))
            /\ UNCHANGED codes
       ELSE IF pw = "short"
       THEN /\ req' = Begin(p, Fail(r, 400, "invalid-params"))
            /\ UNCHANGED codes
       ELSE \E u \in byCode :
              /\ codes' = [codes EXCEPT ![u] = 0]
              /\ req' = Begin(p, [updated EXCEPT !.user = u])
  /\ UNCHANGED <<users, nextUid, tokens, nextTok, now, emails, issued, latest, rotated, revoked>>

\* the recovery of a password next to the other requests, one at a time
NextRec ==
  \/ NextSeq
  \/ RecoverPassword(1)

SpecRec == Init /\ [][NextRec]_vars

\* ------------------------------------------------- getSpaceAnalitics
\* the sum of a pair's component i over the pairs of the sequence rs
RECURSIVE Accumulate(_, _)
Accumulate(rs, i) ==
  IF rs = <<>> THEN 0 ELSE Head(rs)[i] + Accumulate(Tail(rs), i)

\* getFolderAnalitics on the page k of the folder's listing (k = 1 is the
\* call without cursor). The entries of the page are counted; then the
\* call with the cursor and the calls for the subfolders are awaited and
\* each result pair is destructured as [accumulativeFiles,
\* accumulativeSize]; the pair returned is [totalSize, files]
RECURSIVE getFolderAnalitics(_, _)
getFolderAnalitics(folder, k) ==
  LET entries == folder.pages[k]
      isFile(i) == entries[i].tag = "file"
      sizes == [i \in DOMAIN entries |->
                  IF isFile(i) THEN <<1, entries[i].size>> ELSE <<0, 0>>]
      has_more == k < Len(folder.pages)
      more == IF has_more THEN <<getFolderAnalitics(folder, k + 1)>>
              ELSE <<>>
      subFolders == SelectSeq(entries, LAMBDA e : e.tag = "folder")
      subs == [i \in DOMAIN subFolders |->
                 getFolderAnalitics(subFolders[i], 1)]
      accumulativeFiles == Accumulate(more, 1) + Accumulate(subs, 1)
      accumulativeSize == Accumulate(more, 2) + Accumulate(subs, 2)
      files == Accumulate(sizes, 1) + accumulativeFiles
      totalSize == Accumulate(sizes, 2) + accumulativeSize
  IN <<totalSize, files>>

\* the files of a folder and of its subfolders, and their sizes
RECURSIVE FilesOf(_)
FilesOf(folder) ==
  LET RECURSIVE In(_)
      In(es) == IF es = <<>> THEN 0
                ELSE (IF Head(es).tag = "file" THEN 1
                      ELSE FilesOf(Head(es))) + In(Tail(es))
      RECURSIVE Pages(_)
      Pages(ps) == IF ps = <<>> THEN 0 ELSE In(Head(ps)) + Pages(Tail(ps))
  IN Pages(folder.pages)

RECURSIVE BytesOf(_)
BytesOf(folder) ==
  LET RECURSIVE In(_)
      In(es) == IF es = <<>> THEN 0
                ELSE (IF Head(es).tag = "file" THEN Head(es).size
                      ELSE BytesOf(Head(es))) + In(Tail(es))
      RECURSIVE Pages(_)
      Pages(ps) == IF ps = <<>> THEN 0 ELSE In(Head(ps)) + Pages(Tail(ps))
  IN Pages(folder.pages)

\* getSpaceAnalitics: the pair of the root folder is destructured as
\* [files, spaceUsed]. The figures of /users/get_space_usage are passed
\* through and are left out
GetSpaceAnalitics(p) ==
  /\ Slot(p)
  /\ \E root \in RootFolders :
       LET pair == getFolderAnalitics(root, 1)
       IN req' = Begin(p, [Idle EXCEPT !.op = "getSpaceAnalitics",
                                       !.pc = "done", !.status = 200,
                                       !.tree = root,
                                       !.files = pair[1],
                                       !.spaceUsed = pair[2]])
  /\ UNCHANGED <<users, nextUid, tokens, nextTok, now, emails, issued,
                 latest, rotated, revoked, codes>>

NextTree == GetSpaceAnalitics(1)

SpecTree == Init /\ [][NextTree]_vars

\* an awaited store call of the refresh handler, of createToken or of
\* signIn's user.save() rejects (the database is unreachable): the
\* handler's catch block answers. signIn has sent its response before
\* user.save(): its catch then passes 'user-not-found' to next() as well
StoreFails(p) ==
  /\ req[p].pc \in {"rfFind", "rfUser", "ctFind", "ctSave", "ctInsert", "siSave"}
  /\ req' = [req EXCEPT ![p] =
               IF req[p].pc = "siSave"
               THEN [req[p] EXCEPT !.pc = "done", !.threw = TRUE,
                                   !.late = "user-not-found"]
               ELSE [Thrown(req[p]) EXCEPT !.threw = TRUE]]
  /\ UNCHANGED <<users, nextUid, tokens, nextTok, now, emails, issued, latest, rotated, revoked, codes>>

\* one request at a time over a store that can fail
NextFail ==
  \/ NextSeq
  \/ StoreFails(1)

SpecFail == Init /\ [][NextFail]_vars

\* two subjects, one request at a time
NextTwo ==
  \/ CreateUser(1)
  \/ SignIn(1)
  \/ SiSave(1)
  \/ CtFind(1)
  \/ CtSave(1)
  \/ CtInsert(1)
  \/ StartRefresh(1)
  \/ RfFind(1)
  \/ RfUser(1)
  \/ SignOut(1)
  \/ SoSave(1)
  \/ DeleteUser(1)
  \/ DuTok(1)
  \/ DuUser(1)
  \/ Tick

SpecTwo == Init /\ [][NextTwo]_vars

\* ---------------------------------------------------------- access token
\* no Authorization header, and a string that is not a JWT
NoAccessToken == Idle.at
Malformed == [uid |-> 0, iat |-> 0, exp |-> 0, sig |-> "malformed"]

\* jwt.sign({ uid }, JWT_SECRET_KEY, { expiresIn: accessTokenExpireTime })
generateAccessToken(uid, t) ==
  [uid |-> uid, iat |-> t, exp |-> t + AccessTTL, sig |-> "good"]

\* a verification that reads the expiry one tick late
verifyAccessTokenLate(token, t) ==
  IF token.sig # "good" THEN [err |-> "bad-token", uid |-> 0]
  ELSE IF t > token.exp THEN [err |-> "expired-token", uid |-> 0]
  ELSE [err |-> "", uid |-> token.uid]

\* a verification that also looks the subject up in the store
verifyAccessTokenStored(token, t) ==
  IF token.sig # "good" \/ token.uid \notin users
  THEN [err |-> "bad-token", uid |-> 0]
  ELSE IF t >= token.exp THEN [err |-> "expired-token", uid |-> 0]
  ELSE [err |-> "", uid |-> token.uid]

\* jwt.verify(token, JWT_SECRET_KEY, ...): a malformed token or a wrong
\* signature is a JsonWebTokenError, a passed exp a TokenExpiredError;
\* otherwise resolve(payload.uid), whatever payload.uid is
verifyAccessToken(token, t) ==
  IF token.sig # "good" THEN [err |-> "bad-token", uid |-> 0]
  ELSE IF t >= token.exp THEN [err |-> "expired-token", uid |-> 0]
  ELSE [err |-> "", uid |-> token.uid]

\* what a client can send as its access token: one the server gave out
\* and a slot still shows, or one made elsewhere (with another key, or
\* with the key and a payload of its own)
Forged ==
  {Malformed} \cup
  {[uid |-> 1, iat |-> 0, exp |-> e, sig |-> "bad"] : e \in {0, MaxTime + 1}}
  \cup
  {[uid |-> 0, iat |-> 0, exp |-> e, sig |-> "good"] : e \in {0, MaxTime + 1}}

Sendable ==
  {NoAccessToken} \cup Forged
    \cup {req[q].at : q \in {q \in Procs : req[q].at.sig = "good"}}

\* a call of generateAccessToken(uid) for an account that signed up
GenerateAccessToken(p) ==
  /\ Free(p)
  /\ \E u \in Authenticated :
       req' = [req EXCEPT ![p] =
                 [Idle EXCEPT !.op = "generate", !.pc = "done", !.user = u,
                              !.status = 200, !.when = now,
                              !.at = generateAccessToken(u, now)]]
  /\ UNCHANGED <<users, nextUid, tokens, nextTok, now, emails, issued, latest, rotated, revoked, codes>>

\* an isAuth that keeps a uid the client put in the body
IsAuthKeepsBody(p) ==
  /\ Free(p)
  /\ \E token \in Sendable, uid \in {0} \cup Users :
       LET r == [Idle EXCEPT !.op = "isAuth", !.at = token, !.when = now,
                             !.bodyUid = uid,
                             !.live0 = token.uid \in users]
           v == verifyAccessToken(token, now) IN
       req' = [req EXCEPT ![p] =
                 IF token = NoAccessToken THEN Fail(r, 403, "unauthorized")
                 ELSE IF v.err # "" THEN Fail(r, 401, v.err)
                 ELSE [r EXCEPT !.pc = "done",
                                !.user = IF uid # 0 THEN uid ELSE v.uid]]
  /\ UNCHANGED <<users, nextUid, tokens, nextTok, now, emails, issued, latest, rotated, revoked, codes>>

\* isAuth: 403 without a token; verifyAccessToken, then req.body.uid = uid
\* and next(), or 401 with the TokenError's code. The request body may
\* hold a uid of the client's own
IsAuth(p) ==
  /\ Free(p)
  /\ \E token \in Sendable, uid \in {0} \cup Users :
       LET r == [Idle EXCEPT !.op = "isAuth", !.at = token, !.when = now,
                             !.bodyUid = uid,
                             !.live0 = token.uid \in users]
           v == verifyAccessToken(token, now) IN
       req' = [req EXCEPT ![p] =
                 IF token = NoAccessToken THEN Fail(r, 403, "unauthorized")
                 ELSE IF v.err # "" THEN Fail(r, 401, v.err)
                 ELSE [r EXCEPT !.pc = "done", !.user = v.uid]]
  /\ UNCHANGED <<users, nextUid, tokens, nextTok, now, emails, issued, latest, rotated, revoked, codes>>

\* the token functions next to sign-up and account deletion, the store
\* operations that make and unmake the subject of a token
NextJwt ==
  \/ nextUid <= MaxUsers /\ CreateUser(1)
  \/ CtFind(1)
  \/ CtInsert(1)
  \/ DeleteUser(1)
  \/ DuTok(1)
  \/ DuUser(1)
  \/ Tick
  \/ \E p \in Procs : GenerateAccessToken(p)
  \/ \E p \in Procs : IsAuth(p)

SpecJwt == Init /\ [][NextJwt]_vars

\* -------------------------------------------------------------- replies
\* the step in which the refresh request of slot p is answered
Responds(p) ==
  /\ req[p].op = "refresh"
  /\ InFlight(p)
  /\ req'[p].pc = "done"

\* the refresh request of slot p has been answered
Answered(p) == req[p].op = "refresh" /\ req[p].pc = "done"

Rejected(r, st, cd) ==
  r.status = st /\ r.code = cd /\ r.refreshToken = NullTok

\* ----------------------------------------------------------- properties

\* C1: two refresh requests that present the same live, unexpired token and
\* run concurrently end with exactly one new token pair; the other one is
\* rejected with 401 invalid-refresh-token, and never do both succeed.
C1_OneWinner ==
  \A p \in Procs, q \in Procs :
    ( /\ p # q
      /\ Answered(p) /\ Answered(q)
      /\ req[p].presented = req[q].presented
      /\ req[p].ov /\ req[q].ov
      /\ req[p].live0 /\ req[q].live0 )
    => /\ ~(req[p].status = 200 /\ req[q].status = 200)
       /\ \/ req[p].status = 200
             /\ Rejected(req[q], 401, "invalid-refresh-token")
          \/ req[q].status = 200
             /\ Rejected(req[p], 401, "invalid-refresh-token")

\* C2: a refresh request that presents a token which an earlier, successful
\* refresh has already rotated away is rejected with 401
\* invalid-refresh-token and returns no token pair.
C2_ReuseRejected ==
  \A p \in Procs :
    Answered(p) /\ req[p].reuse0
    => Rejected(req[p], 401, "invalid-refresh-token")

\* C3: a refresh request whose presented token is the stored token of a
\* record that has not expired succeeds, returns a different refresh token,
\* and that token is then the stored token of the subject's record.
C3_LiveTokenRotates ==
  [][\A p \in Procs :
       Responds(p) /\ req'[p].look = "live"
       => /\ req'[p].status = 200
          /\ req'[p].refreshToken \notin {NullTok, req'[p].presented}
          /\ \E d \in tokens' : /\ d.user = req'[p].user
                                /\ d.token = req'[p].refreshToken]_vars

\* C4: a refresh request whose presented token is the stored token of a
\* record with now >= expiryDate is rejected with expired-token and returns
\* no token pair.
C4_ExpiredRejected ==
  \A p \in Procs :
    Answered(p) /\ req[p].look = "expired"
    => req[p].code = "expired-token" /\ req[p].refreshToken = NullTok

\* C5: a refresh request that meets a record past its expiryDate leaves the
\* store as it was: the record still holds the presented token and its
\* expiryDate.
C5_ExpiredLeavesStore ==
  [][\A p \in Procs :
       Responds(p) /\ req'[p].look = "expired"
       => /\ tokens' = tokens
          /\ \E d \in tokens' : /\ d.id = req'[p].found
                                /\ d.token = req'[p].presented]_vars

\* C6: once a sign-out of subject S has been answered, and until the next
\* createToken for S, a refresh request presenting a token that was issued
\* to S is rejected with 401 invalid-refresh-token.
C6_SignedOutRejected ==
  \A p \in Procs :
    Answered(p) /\ req[p].revL
    => Rejected(req[p], 401, "invalid-refresh-token")

\* C7: when a token that was already rotated away is presented again, the
\* owner is signed out: afterwards no record of the owner holds a token.
C7_ReuseSignsOut ==
  [][\A p \in Procs :
       Responds(p) /\ req[p].reuse0
       => \A d \in tokens' :
            req[p].presented \in issued[d.user] => d.token = NullTok]_vars

\* C8: the refresh-token store holds at most one record per subject.
C8_OneRecordPerSubject ==
  \A d \in tokens, e \in tokens : d.user = e.user => d = e

\* C9: for a client acting alone, a refresh presenting the refresh token
\* that was returned last for the subject, before its expiry, succeeds with
\* a different token, and a refresh presenting an older token of the
\* subject is rejected with 401 invalid-refresh-token.
C9_ChainOfRefreshes ==
  [][\A p \in Procs, u \in Users :
       ( /\ Responds(p)
         /\ req[p].presented \in issued[u]
         /\ \A q \in Procs \ {p} : Free(q) )
       => /\ (latest[u] = req[p].presented /\ req'[p].look = "live")
             => /\ req'[p].status = 200
                /\ req'[p].refreshToken \notin {NullTok, req[p].presented}
          /\ latest[u] # req[p].presented
             => Rejected(req'[p], 401, "invalid-refresh-token")]_vars

\* C10: a refresh request returns a token pair only if the value it
\* presented is equal to the token of the record it was looked up with.
C10_OnlyStoredTokenRotates ==
  \A p \in Procs :
    Answered(p) /\ req[p].status = 200
    => req[p].look \in {"live", "expired"}

\* the step in which the createToken call of slot p returns its token
Creates(p) ==
  /\ req[p].pc \in {"ctSave", "ctInsert"}
  /\ req'[p].status = 200

\* C11: createToken called at time t leaves the subject's record with the
\* fresh, non-null token and with expiryDate = t + refreshTokenTTL, whether
\* the record existed before or not.
C11_CreateSetsExpiry ==
  [][\A p \in Procs :
       Creates(p)
       => \E d \in tokens' : /\ d.user = req[p].user
                             /\ d.token = req[p].tok
                             /\ d.token # NullTok
                             /\ d.expiryDate = req[p].exp]_vars

\* C12: a successful refresh leaves the expiryDate of the record it was
\* looked up with as it was, and it succeeds only before that expiryDate.
C12_NoExtension ==
  [][\A p \in Procs :
       Responds(p) /\ req'[p].status = 200 /\ req[p].presented \in Toks
       => \A d \in tokens :
            d.id = req[p].found
            => /\ now < d.expiryDate
               /\ \E e \in tokens' : e.id = d.id
                                     /\ e.expiryDate = d.expiryDate]_vars

\* the step in which the sign-out of slot p is answered
SignsOut(p) ==
  /\ req'[p].op = "signOut"
  /\ req'[p].pc = "done"
  /\ req'[p] # req[p]

\* a record of subject u with its token field put aside
Forget(d, u) == IF d.user = u THEN [d EXCEPT !.token = NullTok] ELSE d

\* C13: with one request at a time, sign-out always succeeds and leaves the
\* subject's record with token = null and nothing else changed; a second
\* sign-out, or a sign-out with no record, leaves the store as it was and
\* creates no record.
C13_SignOutIdempotent ==
  [][\A p \in Procs :
       SignsOut(p)
       => LET u == req'[p].user IN
          /\ req'[p].status = 200
          /\ \A d \in tokens' : d.user = u => d.token = NullTok
          /\ {Forget(d, u) : d \in tokens'} = {Forget(d, u) : d \in tokens}
          /\ Cardinality(tokens') = Cardinality(tokens)
          /\ (req'[p].revL => tokens' = tokens)
          /\ (MatchUser(u) = {} => tokens' = tokens)]_vars

\* a second sign-out in a row has been answered 200 on a record that the
\* first one left with token = null
C13_SecondSignOut ==
  \E p \in Procs :
    /\ req[p].op = "signOut" /\ req[p].pc = "done"
    /\ req[p].revL /\ req[p].status = 200
    /\ \E d \in tokens : d.user = req[p].user /\ d.token = NullTok

\* C14: a refresh that was in flight when the sign-out of its subject was
\* answered, with no sign-in since, returns no pair and leaves every record
\* of the subject with token = null.
C14_SignOutWins ==
  [][\A p \in Procs :
       Responds(p) /\ req[p].so /\ req[p].presented \in Toks
       => /\ req'[p].status # 200
          /\ \A d \in tokens' : d.user = req[p].user => d.token = NullTok]_vars

\* slot p shows the verdict of isAuth on a token
Verified(p) == req[p].op = "isAuth" /\ req[p].at # NoAccessToken

\* C15: a token made by generateAccessToken(S) at time t verifies to S at
\* every time before t + accessTokenExpireTime and is rejected with
\* 'expired-token' from then on.
C15_RoundTrip ==
  \A p \in Procs, u \in Users, t \in 0..MaxTime :
    (Verified(p) /\ req[p].at = generateAccessToken(u, t))
    => IF req[p].when < t + AccessTTL
       THEN req[p].status = 0 /\ req[p].user = u
       ELSE req[p].status = 401 /\ req[p].code = "expired-token"

\* a generated token has been verified both before and after its expiry
C15_BothSides ==
  \E p \in Procs, q \in Procs :
    /\ Verified(p) /\ Verified(q)
    /\ req[p].at = req[q].at /\ req[p].at.uid \in Users
    /\ req[p].at = generateAccessToken(req[p].at.uid, req[p].at.iat)
    /\ req[p].status = 0 /\ req[q].code = "expired-token"

\* C16: isAuth's verification rejects with 'bad-token' a token that is no
\* JWT, one with a wrong signature, and one rightly signed and unexpired
\* whose payload has no uid; it never passes a request on without a
\* subject id.
C16_NoSubjectRejected ==
  \A p \in Procs :
    Verified(p)
    => /\ (\/ req[p].at.sig # "good"
           \/ (req[p].when < req[p].at.exp /\ req[p].at.uid \notin Users))
          => (req[p].status = 401 /\ req[p].code = "bad-token")
       /\ req[p].status = 0 => req[p].user \in Users

\* the step in which slot p takes up a call of a token function
TokenStep(p) ==
  /\ req'[p].op \in {"generate", "isAuth"}
  /\ req'[p] # req[p]

\* C17: a token function changes no stored record, and two verifications
\* of the same token at the same time give the same verdict whatever the
\* store holds at each.
C17_StoreIndependent ==
  [][\A p \in Procs :
       TokenStep(p)
       => /\ UNCHANGED <<users, tokens>>
          /\ \A q \in Procs :
               (Verified(q) /\ req'[p].op = "isAuth"
                  /\ req[q].at = req'[p].at /\ req[q].when = req'[p].when)
               => /\ req[q].status = req'[p].status
                  /\ req[q].code = req'[p].code
                  /\ req[q].user = req'[p].user]_vars

\* the same token has been verified at the same time with its subject in
\* the store and with its subject deleted, and passed both times
C17_AcrossDeletion ==
  \E p \in Procs, q \in Procs :
    /\ Verified(p) /\ Verified(q)
    /\ req[p].at = req[q].at /\ req[p].when = req[q].when
    /\ req[p].live0 /\ ~req[q].live0
    /\ req[p].status = 0 /\ req[q].status = 0
    /\ req[p].user \in Users

\* the request in slot p takes a step, and it is a sign-in, a refresh or a
\* sign-out of subject u (for a refresh: the token presented was issued to u)
StepFor(p, u) ==
  /\ req'[p] # req[p]
  /\ \/ req'[p].op \in {"signIn", "signOut"} /\ req'[p].user = u
     \/ req'[p].op = "refresh" /\ req'[p].presented \in issued[u]

C19_SameRejection ==
  [][\A p \in Procs :
       (/\ Responds(p)
        /\ \/ req[p].presented = UnknownTok
           \/ req[p].reuse0
           \/ req'[p].revL)
       => /\ Rejected(req'[p], 401, "invalid-refresh-token")
          /\ tokens' = tokens]_vars

\* C20: a refresh or a sign-in whose store call threw is answered with the
\* generic 500 of the error handler, not with a code of the token protocol.
C20_StoreFailureIs500 ==
  \A p \in Procs :
    (req[p].threw /\ req[p].op \in {"refresh", "signIn"})
    => req[p].status = 500 /\ req[p].code = "unknow"

\* C21: every sign-out request that has been answered was answered 200,
\* whatever record its subject had.
C21_SignOutSucceeds ==
  \A p \in Procs :
    (req[p].op = "signOut" /\ req[p].pc = "done") => req[p].status = 200

\* C22: every answer that carries the code 'expired-token',
\* 'invalid-refresh-token' or 'bad-token', from isAuth or from the refresh
\* handler, has status 401.
C22_TokenErrorsAre401 ==
  \A p \in Procs :
    (req[p].pc = "done"
       /\ req[p].code \in {"expired-token", "invalid-refresh-token", "bad-token"})
    => req[p].status = 401

\* C23: once a sign-in of a subject that had an active record has been
\* answered, a refresh presenting a token issued to that subject before the
\* sign-in is rejected with 401 invalid-refresh-token.
C23_SignInSupersedes ==
  \A p \in Procs :
    (Answered(p) /\ req[p].sup)
    => Rejected(req[p], 401, "invalid-refresh-token")

\* C24: isAuth calls next() without an error exactly for a rightly signed,
\* unexpired token, and the handler then sees the token's subject as
\* req.body.uid whatever uid the body carried; for every other header it
\* passes on one error and the handler sees no uid.
C24_GateOnlyForValid ==
  \A p \in Procs :
    (req[p].op = "isAuth" /\ req[p].pc = "done")
    => IF req[p].at.sig = "good" /\ req[p].when < req[p].at.exp
       THEN req[p].status = 0 /\ req[p].code = ""
            /\ req[p].user = req[p].at.uid
       ELSE req[p].status \in {401, 403} /\ req[p].code # ""
            /\ req[p].user = 0

\* a request whose body named another subject than its token has passed
\* the gate as the token's subject
C24_BodyOverridden ==
  \E p \in Procs :
    /\ req[p].op = "isAuth" /\ req[p].status = 0
    /\ req[p].bodyUid \in Users /\ req[p].at.uid \in Users
    /\ req[p].bodyUid # req[p].at.uid
    /\ req[p].user = req[p].at.uid

\* C25: a refresh whose presented token is stored and unexpired, while the
\* record's user is no longer in the user store, is rejected with 401
\* invalid-refresh-token, returns no pair and leaves the token store as it
\* was.
C25_OwnerGoneRejected ==
  [][\A p \in Procs :
       (Responds(p) /\ req'[p].look = "live" /\ req'[p].user \notin users)
       => /\ Rejected(req'[p], 401, "invalid-refresh-token")
          /\ tokens' = tokens]_vars

\* C26: when no request is in flight, an account that was deleted has no
\* record left in the refresh-token store.
C26_DeletedLeavesNoRecord ==
  (\A p \in Procs : Free(p))
  => \A u \in Users : (u < nextUid /\ u \notin users) => MatchUser(u) = {}

\* C27: an answered sign-in has either sent the token pair or passed one
\* error to the error handler, not both, and nothing is passed to the
\* error handler after the pair was sent.
C27_OneOutcome ==
  \A p \in Procs :
    (req[p].op = "signIn" /\ req[p].pc = "done")
    => /\ (req[p].status = 200 /\ req[p].refreshToken # NullTok)
            # (req[p].code # "" \/ req[p].late # "")
       /\ req[p].late = ""

\* C28: updateCredentials with a password that is not the user's is
\* answered 401 invalid-credentials and never changes the stored email.
C28_WrongPasswordRefused ==
  [][\A p \in Procs :
       (/\ req'[p].op = "updateCredentials" /\ req'[p] # req[p]
        /\ req'[p].pw = "wrong" /\ req'[p].user \in users)
       => /\ emails' = emails
          /\ req'[p].pc = "done"
          /\ req'[p].status = 401 /\ req'[p].code = "invalid-credentials"]_vars

\* C29: recoverPassword with the email of a registered user and no code
\* stores a recovery code for that user and answers 'email-sent'; with a
\* stored code and a password of valid length it clears the code and
\* answers 'password-updated'.
C29_RecoveryWorks ==
  [][\A p \in Procs :
       (req'[p].op = "recoverPassword" /\ req'[p] # req[p])
       => /\ \A u \in users :
               (emails[u] = req'[p].email /\ req'[p].rcode = 0)
               => /\ req'[p].status = 200
                  /\ req'[p].action = "email-sent"
                  /\ codes'[u] # 0
          /\ \A u \in users :
               (/\ req'[p].rcode # 0 /\ codes[u] = req'[p].rcode
                /\ req'[p].email # 0 /\ req'[p].pw = "right")
               => /\ req'[p].status = 200
                  /\ req'[p].action = "password-updated"
                  /\ codes'[u] = 0]_vars

\* C30: getSpaceAnalitics answers, for every folder tree and every paging
\* of its listings, 'files' = the number of files of the root folder and
\* of its subfolders and 'spaceUsed' = the sum of their sizes.
C30_FilesAndSizes ==
  \A p \in Procs :
    req[p].op = "getSpaceAnalitics"
    => /\ req[p].files = FilesOf(req[p].tree)
       /\ req[p].spaceUsed = BytesOf(req[p].tree)
====
